---- MODULE Spec2Model ----
(***************************************************************************)
(* A model of lib/scraper/scraper.py: the record builders (LuaClass,       *)
(* LuaNamespace, the LuaEnumerator stream reader), the file categorizer    *)
(* and the AfterbirthApi assembler.                                        *)
(*                                                                         *)
(* The regular expressions of scraper_regexs are not part of the model: a  *)
(* line of a file is the record of what each pattern finds in it, and the  *)
(* model ranges over every combination of those results.                   *)
(***************************************************************************)
EXTENDS Integers, Sequences, FiniteSets, TLC

(* ------------------------------ bounds --------------------------------- *)
\* lines of the enum file read by streamInit
MaxEnumLines == 5
\* lines of the enum file where the end of the drain loop is checked
MaxDrainLines == 4
\* lines of the file read by the LuaClass line loop
MaxClassLines == 4
\* lines of the file read by the LuaNamespace line loop
MaxNsLines == 4
\* entries of the doc root listed by os.scandir
MaxEntries == 3
\* files listed in the search directory
MaxChildren == 1
\* AfterbirthApi instances constructed in one process
MaxRuns == 2
\* the doc roots the whole program is run on: entries of the root, files of
\* the search directory, lines of a class or namespace file, of the enum file
MaxApiEntries == 2
MaxApiChildren == 1
MaxApiLines == 1
MaxApiEnumLines == 2

(* ------------------------------ values --------------------------------- *)
\* Python's None, where the other values are strings
None == "None"

\* the names a pattern can capture
EnumNames == {"EnumX", "EnumY"}
MemberNames == {"a", "b"}
FuncNames == {"foo", "bar"}
AttrNames == {"x"}
ClassNames == {"foo"}
NamespaceNames == {"Game"}

\* sequences over S of length at most n
SeqUpTo(S, n) == UNION {[1..k -> S] : k \in 0..n}

(* A file name, kept as the parts the filters of categorizeFiles tell      *)
(* apart: a prefix, a stem and an extension.                               *)
FileName(prefix, stem, ext) == [prefix |-> prefix, stem |-> stem, ext |-> ext]
NoFile == FileName("", "", "")

(* A path or link string, kept as the parts os.path.basename tells apart:  *)
(* the directory (a sequence of names), the file name and what follows a   *)
(* '#'.                                                                    *)
Path(dir, file) == [dir |-> dir, file |-> file, anchor |-> ""]

\* os.path.basename: everything after the last '/'
basename(p) == [dir |-> <<>>, file |-> p.file, anchor |-> p.anchor]

\* a bare string with no directory and no file part, such as a captured link
Bare(s) == [dir |-> <<>>, file |-> NoFile, anchor |-> s]

\* fileName + '#' + link
WithAnchor(p, link) == [dir |-> p.dir, file |-> p.file, anchor |-> link]

DocBase == "https://moddingofisaac.com/docs/"

\* DocDescription.__init__; an absent link is <<>>, a link is <<url>>
DocDescription(description, docLink) ==
    [description |-> description,
     link |-> IF docLink = <<>> THEN <<>>
              ELSE <<[base |-> DocBase,
                      file |-> basename(docLink[1]).file,
                      anchor |-> basename(docLink[1]).anchor]>>]

(* ------------------------------ LuaType -------------------------------- *)
\* LuaType.__initFlat
LuaTypeInitFlat(name, isConst, isStatic) ==
    [name |-> IF name # "" THEN name ELSE "nil",
     isConst |-> isConst, isStatic |-> isStatic]

\* LuaType(): typeHint is None
LuaTypeDefault == LuaTypeInitFlat("nil", FALSE, FALSE)

\* LuaType(typeHint, isConst, isStatic) with typeHint a string
LuaTypeOfStr(typeHint, isConst, isStatic) == LuaTypeInitFlat(typeHint, isConst, isStatic)

(* A type hint given to LuaType(typeHint, isConst, isStatic): kind "none"   *)
(* is typeHint None, kind "str" a string (type), kind "match" a match      *)
(* object whose 'type' group is type (None when the group did not          *)
(* participate); const and static are the keyword arguments for the first  *)
(* two kinds, and whether the group of that name participated for a match. *)
TypeHint(kind, type, const, static) ==
    [kind |-> kind, type |-> type, const |-> const, static |-> static]

\* tryMatch(x, prop) on a match object: x.group(prop) is not None
tryMatch(typeHint, prop) == IF prop = "const" THEN typeHint.const ELSE typeHint.static

\* LuaType(typeHint) with typeHint a match object: lines 97-101
LuaTypeOfMatch(typeHint) ==
    LuaTypeInitFlat(typeHint.type, tryMatch(typeHint, "const"), tryMatch(typeHint, "static"))

\* LuaType.__init__: lines 91-103
LuaType(typeHint) ==
    IF typeHint.kind = "none" THEN LuaTypeInitFlat("nil", FALSE, FALSE)
    ELSE IF typeHint.kind = "match" THEN LuaTypeOfMatch(typeHint)
         ELSE LuaTypeOfStr(typeHint.type, typeHint.const, typeHint.static)

\* the type texts a pattern can capture
TypeTexts == {"int", "float", "boolean", "string", "Vector", "Entity"}

\* every way LuaType is called
TypeHints ==
    {TypeHint("none", None, c, st) : c \in BOOLEAN, st \in BOOLEAN}
    \cup {TypeHint("str", t, c, st) : t \in TypeTexts \cup {""}, c \in BOOLEAN, st \in BOOLEAN}
    \cup {TypeHint("match", t, c, st) :
             t \in TypeTexts \cup {"", None}, c \in BOOLEAN, st \in BOOLEAN}

(* ------------------------ class and namespace files -------------------- *)
(* A line of a class or namespace file: fn is the 'name' group of          *)
(* RE_FUNCTION_SIGNATURE (None when the pattern does not match), returns   *)
(* its 'returns' group, attr the 'name' group of RE_ATTRIBUTE (None when   *)
(* there is none), desc whether RE_DESCRIPTION finds a description.        *)
ReturnsOf(fn) == IF fn = "bar" THEN "int" ELSE ""

ClassLines ==
    {l \in [fn : FuncNames \cup {None}, returns : {"", "int"},
            attr : AttrNames \cup {None}, desc : BOOLEAN] :
        l.returns = ReturnsOf(l.fn)}

\* a namespace file is read for functions and descriptions only
NsLines == {l \in ClassLines : l.attr = None}

\* the flags of lines 247-249
METHOD_SET == 1
ATTRIB_SET == 2

\* a result that is an exception
Raise(e) == [err |-> e, obj |-> <<>>]
\* a result that is a value
Return(v) == [err |-> None, obj |-> <<v>>]

(* LuaFunction.__init__ on line number i of its file.  An object is known  *)
(* by the line that made it (id), which is what a reference to it holds.   *)
(* Its parameters are left out.                                            *)
LuaFunction(line, i) ==
    IF line.fn = None THEN Raise("InvalidFunctionRematcher")
    ELSE Return([id |-> i, name |-> line.fn,
                 returnType |-> IF line.returns = "" THEN LuaTypeDefault
                                ELSE LuaTypeOfStr(line.returns, FALSE, FALSE),
                 description |-> <<>>])

(* LuaMethod.__init__ recording a constructor only when the class has none *)
(* yet: the first method named after the class would stay the constructor. *)
LuaMethodFirstWins(line, i, class_) ==
    LET f == LuaFunction(line, i) IN
    IF f.err # None THEN [res |-> f, class_ |-> class_]
    ELSE IF f.obj[1].name = class_.name
         THEN [res |-> Return([f.obj[1] EXCEPT
                                 !.returnType = LuaTypeOfStr(class_.name, FALSE, TRUE)]),
               class_ |-> IF class_.constructor = 0
                          THEN [class_ EXCEPT !.constructor = i] ELSE class_]
         ELSE [res |-> f, class_ |-> class_]

(* LuaMethod.__init__ without line 202: the constructor would keep the     *)
(* return type found on its line.                                          *)
LuaMethodKeepsReturnType(line, i, class_) ==
    LET f == LuaFunction(line, i) IN
    IF f.err # None THEN [res |-> f, class_ |-> class_]
    ELSE IF f.obj[1].name = class_.name
         THEN [res |-> f, class_ |-> [class_ EXCEPT !.constructor = i]]
         ELSE [res |-> f, class_ |-> class_]

(* LuaMethod.__init__: the result, and class_ as the constructor leaves it *)
LuaMethod(line, i, class_) ==
    LET f == LuaFunction(line, i) IN
    IF f.err # None THEN [res |-> f, class_ |-> class_]
    ELSE IF f.obj[1].name = class_.name
         THEN [res |-> Return([f.obj[1] EXCEPT
                                 !.returnType = LuaTypeOfStr(class_.name, FALSE, TRUE)]),
               class_ |-> [class_ EXCEPT !.constructor = i]]
         ELSE [res |-> f, class_ |-> class_]

\* LuaAttribute.__init__; its type is left out
LuaAttribute(line, i) ==
    IF line.attr = None THEN Raise("InvalidAttributeRematcher")
    ELSE Return([id |-> i, name |-> line.attr, description |-> <<>>])

\* _parseDescription: <<>> for None; the text of line i is known by i
parseDescription(line, i) == IF line.desc THEN <<i>> ELSE <<>>

\* s with its last element replaced by what f makes of it
SetLastDescription(s, d) ==
    [s EXCEPT ![Len(s)] = [@ EXCEPT !.description = <<d>>]]

(* ------------------------------ LuaClass ------------------------------- *)
(* The state of LuaClass.__init__ between two lines: self, and the local   *)
(* lastSet.  parents and _parentNames are left out (never read).           *)
ClassBuilder(self, lastSet) == [self |-> self, lastSet |-> lastSet]

(* Lines 230-249: the class name is group 1 of RE_CLASS_NAME.search on the *)
(* whole content; marker is that group, None when search returns None, and *)
(* then .group raises AttributeError.                                      *)
LuaClassOpen(classPath, marker) ==
    IF marker = None THEN Raise("AttributeError")
    ELSE Return(ClassBuilder(
            [name |-> marker,
             description |-> DocDescription(<<marker, " instance">>, <<classPath>>),
             methods |-> <<>>, attributes |-> <<>>,
             constructor |-> 0],
            0))

(* Lines 251-254 with the else clause run after a failed attempt too: the  *)
(* marker would say a method was recognized on a line that holds none.     *)
TryMethodMarksAttempt(b, line, i) ==
    LET m == LuaMethod(line, i, b.self) IN
    IF m.res.err = "InvalidFunctionRematcher" THEN ClassBuilder(b.self, METHOD_SET)
    ELSE ClassBuilder([m.class_ EXCEPT !.methods = Append(@, m.res.obj[1])],
                      METHOD_SET)

\* lines 251-254
TryMethod(b, line, i) ==
    LET m == LuaMethod(line, i, b.self) IN
    IF m.res.err = "InvalidFunctionRematcher" THEN b
    ELSE ClassBuilder([m.class_ EXCEPT !.methods = Append(@, m.res.obj[1])],
                      METHOD_SET)

(* Lines 256-259 run only when no method was found on the line: a line     *)
(* would go to one list at most.                                           *)
TryAttributeUnlessMethod(b, line, i) ==
    LET a == LuaAttribute(line, i) IN
    IF a.err = "InvalidAttributeRematcher" \/ line.fn # None THEN b
    ELSE ClassBuilder([b.self EXCEPT !.attributes = Append(@, a.obj[1])],
                      ATTRIB_SET)

\* lines 256-259
TryAttribute(b, line, i) ==
    LET a == LuaAttribute(line, i) IN
    IF a.err = "InvalidAttributeRematcher" THEN b
    ELSE ClassBuilder([b.self EXCEPT !.attributes = Append(@, a.obj[1])],
                      ATTRIB_SET)

(* Lines 262-269 choosing the list by what it holds instead of by lastSet:  *)
(* a description would go to the last method whenever there is one.        *)
AttachDescriptionMethodsFirst(b, line, i, classPath) ==
    LET lineDescr == parseDescription(line, i) IN
    IF lineDescr = <<>> THEN b
    ELSE IF b.self.methods # <<>>
         THEN [b EXCEPT !.self.methods =
                  SetLastDescription(@, DocDescription(lineDescr[1], <<classPath>>))]
         ELSE IF b.self.attributes # <<>>
              THEN [b EXCEPT !.self.attributes =
                      SetLastDescription(@, DocDescription(lineDescr[1], <<classPath>>))]
              ELSE b

\* lines 262-269
AttachDescription(b, line, i, classPath) ==
    LET lineDescr == parseDescription(line, i) IN
    IF lineDescr = <<>> THEN b
    ELSE IF b.lastSet = METHOD_SET
         THEN [b EXCEPT !.self.methods =
                  SetLastDescription(@, DocDescription(lineDescr[1], <<classPath>>))]
         ELSE IF b.lastSet = ATTRIB_SET
              THEN [b EXCEPT !.self.attributes =
                      SetLastDescription(@, DocDescription(lineDescr[1], <<classPath>>))]
              ELSE b

\* the body of the loop of line 250, on line number i
ClassLineStep(b, line, i, classPath) ==
    AttachDescription(TryAttribute(TryMethod(b, line, i), line, i), line, i, classPath)

RECURSIVE ClassLoop(_, _, _, _)
ClassLoop(b, lines, i, classPath) ==
    IF i > Len(lines) THEN b
    ELSE ClassLoop(ClassLineStep(b, lines[i], i, classPath), lines, i + 1, classPath)

\* LuaClass(classPath) on a file with that marker and those lines
LuaClass(classPath, marker, lines) ==
    LET o == LuaClassOpen(classPath, marker) IN
    IF o.err # None THEN o
    ELSE Return(ClassLoop(o.obj[1], lines, 1, classPath).self)

(* ---------------------------- LuaNamespace ----------------------------- *)
FuncsFile == FileName("group__", "funcs", ".html")

(* Lines 279-291: marker is group 1 of RE_NAMESPACE_NAME.search on the     *)
(* content, None when search returns None; the AttributeError of .group is *)
(* caught, and raised again unless the file is group__funcs.html.          *)
LuaNamespaceOpen(namespacePath, marker) ==
    IF marker # None THEN Return([name |-> marker, functions |-> <<>>])
    ELSE IF basename(namespacePath).file = FuncsFile
         THEN Return([name |-> "_G", functions |-> <<>>])
         ELSE Raise("AttributeError")

\* lines 293-295
TryFunction(self, line, i) ==
    LET f == LuaFunction(line, i) IN
    IF f.err = "InvalidFunctionRematcher" THEN self
    ELSE [self EXCEPT !.functions = Append(@, f.obj[1])]

(* Lines 297-300: self.functions[-1] raises IndexError on an empty list.   *)
NsAttachDescription(self, line, i) ==
    LET lineDescr == parseDescription(line, i) IN
    IF lineDescr = <<>> THEN Return(self)
    ELSE IF self.functions = <<>> THEN Raise("IndexError")
         ELSE Return([self EXCEPT !.functions =
                        SetLastDescription(@, DocDescription(lineDescr[1], <<>>))])

\* the body of the loop of line 292, on line number i
NsLineStep(self, line, i) == NsAttachDescription(TryFunction(self, line, i), line, i)

RECURSIVE NsLoop(_, _, _)
NsLoop(self, lines, i) ==
    IF i > Len(lines) THEN Return(self)
    ELSE LET r == NsLineStep(self, lines[i], i) IN
         IF r.err # None THEN r ELSE NsLoop(r.obj[1], lines, i + 1)

\* LuaNamespace(namespacePath) on a file with that marker and those lines
LuaNamespace(namespacePath, marker, lines) ==
    LET o == LuaNamespaceOpen(namespacePath, marker) IN
    IF o.err # None THEN o ELSE NsLoop(o.obj[1], lines, 1)

(* --------------------------- the enum file ----------------------------- *)
(* A line of the enum file: en is the 'name' group of RE_ENUM_NAME (None   *)
(* when the pattern does not match), link its 'link' group, mem the 'name' *)
(* group of RE_ENUM_MEMBER (None when that pattern does not match).        *)
EnumLink(n) == IF n = "EnumX" THEN "gaX" ELSE IF n = "EnumY" THEN "gaY" ELSE ""

\* the member pattern is tried only on a line the enum-name pattern does not
\* match (line 347), so one member name stands for all on an enum-name line
EnumLines ==
    {l \in [en : EnumNames \cup {None}, link : {"", "gaX", "gaY"},
            mem : MemberNames \cup {None}] :
        /\ l.link = EnumLink(l.en)
        /\ l.en # None => l.mem \in {None, "a"}}

\* how __streamInit takes a line: lines 337-338 and 347-349
IsEnumNameLine(l) == l.en # None
IsEnumMemberLine(l) == l.en = None /\ l.mem # None

EnumTag(name, value, description) ==
    [name |-> name, value |-> value, description |-> description]

\* LuaEnumerator.__init__
LuaEnumerator(name, link, members) ==
    [name |-> name, members |-> members,
     description |-> DocDescription(<<"Enum ", name>>, <<link>>)]

(* EnumReturnAtName without the seek: the enum-name line that ended the    *)
(* record stays consumed.                                                  *)
EnumReturnAtNameNoSeek(fileName, oldPointerPosition, curEnumName, curEnumLink, curMemberList) ==
    [ret |-> <<LuaEnumerator(curEnumName, WithAnchor(fileName, curEnumLink),
                             curMemberList)>>,
     pos |-> oldPointerPosition + 1]

(* Lines 343-346 seeking to the start of the file instead of to the        *)
(* position before the line just read.                                     *)
EnumReturnAtNameSeekStart(fileName, oldPointerPosition, curEnumName, curEnumLink, curMemberList) ==
    [ret |-> <<LuaEnumerator(curEnumName, WithAnchor(fileName, curEnumLink),
                             curMemberList)>>,
     pos |-> 0]

\* lines 343-346: seek back to before the line just read, return the record
EnumReturnAtName(fileName, oldPointerPosition, curEnumName, curEnumLink, curMemberList) ==
    [ret |-> <<LuaEnumerator(curEnumName, WithAnchor(fileName, curEnumLink),
                             curMemberList)>>,
     pos |-> oldPointerPosition]

\* lines 358-362: end of file
EnumReturnAtEof(file, curEnumName, curEnumLink, curMemberList) ==
    IF curEnumName # None
    THEN [ret |-> <<LuaEnumerator(curEnumName, Bare(curEnumLink), curMemberList)>>,
          pos |-> Len(file)]
    ELSE [ret |-> <<>>, pos |-> Len(file)]

(* The while loop of __streamInit.  The stream position is the number of   *)
(* lines consumed; oldPointerPosition is the position before curLine was   *)
(* read, so curLine is line oldPointerPosition + 1, or '' at end of file.  *)
RECURSIVE StreamLoop(_, _, _, _, _, _)
StreamLoop(file, fileName, oldPointerPosition, curEnumName, curEnumLink, curMemberList) ==
    IF oldPointerPosition >= Len(file)
    THEN EnumReturnAtEof(file, curEnumName, curEnumLink, curMemberList)
    ELSE LET curLine == file[oldPointerPosition + 1] IN
         IF curLine.en # None
         THEN IF curEnumName = None
              THEN StreamLoop(file, fileName, oldPointerPosition + 1,
                              curLine.en, curLine.link, curMemberList)
              ELSE EnumReturnAtName(fileName, oldPointerPosition, curEnumName,
                                    curEnumLink, curMemberList)
         ELSE IF curLine.mem # None
              THEN StreamLoop(file, fileName, oldPointerPosition + 1,
                              curEnumName, curEnumLink,
                              Append(curMemberList, EnumTag(curLine.mem, 0, "")))
              ELSE StreamLoop(file, fileName, oldPointerPosition + 1,
                              curEnumName, curEnumLink, curMemberList)

\* __streamInit(openFile): the value returned (<<>> for None) and the
\* position the stream is left at
streamInit(file, fileName, pos) == StreamLoop(file, fileName, pos, None, "", <<>>)

(* ---------------------------- the doc root ----------------------------- *)
DocPath == <<"docs">>
SearchDir == FileName("", "search", "")
OtherDir == FileName("", "html", "")
\* dirEntry.path of the search directory
SearchPath == DocPath \o <<"search">>

EnumFileName == Path(DocPath, FileName("group__", "enums", ".html"))
FuncsFileName == Path(DocPath, FuncsFile)

\* the stems made of the characters [0-9A-Za-z_] only
WordStems == {"", "foo", "bar", "Game", "s", "index"}

(* isClassFile: fullmatch of class_[0-9A-Za-z_]*(?!-members.html)\.html.   *)
(* After the stem the pattern needs '.html', so the lookahead never fails  *)
(* where the rest could match.                                             *)
isClassFile(name) ==
    name.prefix = "class_" /\ name.stem \in WordStems /\ name.ext = ".html"

\* isNamespaceFile: fullmatch of namespace_[\w]+\.html
isNamespaceFile(name) ==
    /\ name.prefix = "namespace_"
    /\ name.stem \in WordStems /\ name.stem # ""
    /\ name.ext = ".html"

(* An entry of os.scandir(docPath): a file, or a directory with the names  *)
(* os.scandir lists in it.  The two group__ files, which match no filter,  *)
(* are not listed in the model.                                            *)
FileEntry(name) == [name |-> name, isDir |-> FALSE, children |-> <<>>]
DirEntry(name, children) == [name |-> name, isDir |-> TRUE, children |-> children]

TopFileNames ==
    {FileName("class_", "foo", ".html"), FileName("class_", "foo", "-members.html"),
     FileName("namespace_", "Game", ".html"), FileName("", "index", ".html")}
SearchFileNames ==
    {FileName("class_", "bar", ".html"), FileName("namespace_", "s", ".html")}

NoRepeat(s) == \A a, b \in 1..Len(s) : a # b => s[a] # s[b]

\* the entries a doc root can list, a search directory holding at most n files
Entries(n) ==
    {FileEntry(f) : f \in TopFileNames}
    \cup {DirEntry(SearchDir, c) : c \in {c \in SeqUpTo(SearchFileNames, n) : NoRepeat(c)}}
    \cup {DirEntry(OtherDir, <<>>)}

\* listings of at most m entries, no name twice
Listings(m, n) ==
    {l \in SeqUpTo(Entries(n), m) :
        \A a, b \in 1..Len(l) : a # b => l[a].name # l[b].name}

(* allDocFiles is a generator: scan is where it stands, entry i of the     *)
(* listing with j names of that directory already yielded.  GenNext is one *)
(* next() of it: a (name, directory) pair and the new position, or the     *)
(* UpdatedDocError of line 376, or the end of the listing.  The assert of  *)
(* line 375 is taken as executed (python without -O).                      *)
(* allDocFiles without the check of lines 375-376: a directory of any name *)
(* is listed like the search directory.                                    *)
RECURSIVE GenNextNoCheck(_, _, _)
GenNextNoCheck(entries, i, j) ==
    IF i > Len(entries)
    THEN [kind |-> "stop", name |-> NoFile, dir |-> <<>>, i |-> i, j |-> j]
    ELSE LET dirEntry == entries[i] IN
         IF dirEntry.isDir
         THEN IF j < Len(dirEntry.children)
              THEN [kind |-> "yield", name |-> dirEntry.children[j + 1],
                    dir |-> SearchPath, i |-> i, j |-> j + 1]
              ELSE GenNextNoCheck(entries, i + 1, 0)
         ELSE [kind |-> "yield", name |-> dirEntry.name, dir |-> DocPath,
               i |-> i + 1, j |-> 0]

RECURSIVE GenNext(_, _, _)
GenNext(entries, i, j) ==
    IF i > Len(entries)
    THEN [kind |-> "stop", name |-> NoFile, dir |-> <<>>, i |-> i, j |-> j]
    ELSE LET dirEntry == entries[i] IN
         IF dirEntry.isDir
         THEN IF dirEntry.name # SearchDir
              THEN [kind |-> "UpdatedDocError", name |-> NoFile, dir |-> <<>>,
                    i |-> i, j |-> j]
              ELSE IF j < Len(dirEntry.children)
                   THEN [kind |-> "yield", name |-> dirEntry.children[j + 1],
                         dir |-> SearchPath, i |-> i, j |-> j + 1]
                   ELSE GenNext(entries, i + 1, 0)
         ELSE [kind |-> "yield", name |-> dirEntry.name, dir |-> DocPath,
               i |-> i + 1, j |-> 0]

\* the paths categorizeFiles classifies in a listing that raises nothing
RECURSIVE Classified(_, _, _)
Classified(entries, i, j) ==
    LET g == GenNext(entries, i, j) IN
    IF g.kind # "yield" THEN {}
    ELSE (IF isClassFile(g.name) \/ isNamespaceFile(g.name)
          THEN {Path(g.dir, g.name)} ELSE {})
         \cup Classified(entries, g.i, g.j)

(* The content of a class or namespace file: marker is what the name       *)
(* pattern (RE_CLASS_NAME, RE_NAMESPACE_NAME) captures in it, or None.     *)
Content(marker, lines) == [marker |-> marker, lines |-> lines]
MarkersOf(path) == IF isClassFile(path.file) THEN ClassNames ELSE NamespaceNames

(* ------------------------------- state --------------------------------- *)
VARIABLES
    listing,         \* the doc root: what os.scandir(docPath) lists, in order
    content,         \* the doc root: the content of each file that is opened
    enumLines,       \* the doc root: the lines of group__enums.html
    pc,              \* where AfterbirthApi.__init__ is
    raised,          \* the exception that left AfterbirthApi.__init__, or None
    scan,            \* categorizeFiles: where the running allDocFiles stands
    tested,          \* categorizeFiles: the filter calls made, in order
    classFiles,      \* categorizeFiles: the first list, as built so far
    nsFiles,         \* categorizeFiles: the second list, as built so far
    self,            \* the instance under construction: classes, namespaces
    enumStream,      \* the open enum file: its name, its lines, its position
    yielded,         \* the values streamInit returned that were not None
    enumerators,     \* the list of the class attribute AfterbirthApi.enumerators
    built,           \* the instances constructed so far
    returned,        \* what each instance held when its __init__ returned
    clsFile,         \* LuaClass: the path and the name marker of its file
    clsRead,         \* LuaClass: the lines read so far
    clsB,            \* LuaClass: self and lastSet
    clsPc,           \* LuaClass: where __init__ is
    clsRaised,       \* LuaClass: the exception that left __init__, or None
    nsFile,          \* LuaNamespace: the path and the name marker of its file
    nsRead,          \* LuaNamespace: the lines read so far
    nsSelf,          \* LuaNamespace: self
    nsPc,            \* LuaNamespace: where __init__ is
    nsRaised,        \* LuaNamespace: the exception that left __init__, or None
    clsTry,          \* LuaClass: self, lastSet after line 254, what line 253 caught
    nsTry,           \* LuaNamespace: self after line 295, what line 295 caught
    tyHint,          \* LuaType: the type hint given to the constructor
    tyOut,           \* LuaType: the object constructed
    tyPc             \* LuaType: where __init__ is

treeVars == <<listing, content, enumLines>>
catVars == <<scan, tested, classFiles, nsFiles>>
apiVars == <<pc, raised, self, enumStream, yielded, enumerators, built, returned>>
clsVars == <<clsFile, clsRead, clsB, clsPc, clsRaised, clsTry>>
nsVars == <<nsFile, nsRead, nsSelf, nsPc, nsRaised, nsTry>>
tyVars == <<tyHint, tyOut, tyPc>>
vars == <<treeVars, catVars, apiVars, clsVars, nsVars, tyVars>>

\* open(curFile, 'r')
OpenStream(fileName, lines) == [name |-> fileName, lines |-> lines, pos |-> 0]

\* an instance's enumerators attribute is a reference to a list
ClassList == "AfterbirthApi.enumerators"
EnumeratorsOf(instance) == IF instance.enumerators = ClassList THEN enumerators ELSE <<>>

(* --------------------------- categorizeFiles --------------------------- *)
(* One turn of the comprehension of lines 397-398: a next() of allDocFiles *)
(* and isClassFile on the name it yields.                                  *)
ClassPass ==
    /\ pc = "classPass"
    /\ LET g == GenNext(listing, scan.i, scan.j) IN
        IF g.kind = "yield"
        THEN /\ tested' = Append(tested, [filter |-> "isClassFile", name |-> g.name])
             /\ classFiles' = IF isClassFile(g.name)
                              THEN Append(classFiles, Path(g.dir, g.name))
                              ELSE classFiles
             /\ scan' = [i |-> g.i, j |-> g.j]
             /\ UNCHANGED <<pc, raised>>
        ELSE IF g.kind = "UpdatedDocError"
        THEN /\ pc' = "raised"
             /\ raised' = "UpdatedDocError"
             /\ UNCHANGED <<tested, classFiles, scan>>
        ELSE /\ pc' = "nsPass"
             /\ scan' = [i |-> 1, j |-> 0]
             /\ UNCHANGED <<tested, classFiles, raised>>
    /\ UNCHANGED <<tyVars, treeVars, nsFiles, self, enumStream, yielded, enumerators,
                   built, returned, clsVars, nsVars>>

(* One turn of the comprehension of lines 399-400, on a second run of      *)
(* allDocFiles; when it ends categorizeFiles returns.                      *)
NsPass ==
    /\ pc = "nsPass"
    /\ LET g == GenNext(listing, scan.i, scan.j) IN
        IF g.kind = "yield"
        THEN /\ tested' = Append(tested, [filter |-> "isNamespaceFile", name |-> g.name])
             /\ nsFiles' = IF isNamespaceFile(g.name)
                           THEN Append(nsFiles, Path(g.dir, g.name))
                           ELSE nsFiles
             /\ scan' = [i |-> g.i, j |-> g.j]
             /\ UNCHANGED <<pc, raised>>
        ELSE IF g.kind = "UpdatedDocError"
        THEN /\ pc' = "raised"
             /\ raised' = "UpdatedDocError"
             /\ UNCHANGED <<tested, nsFiles, scan>>
        ELSE /\ pc' = "classes"
             /\ UNCHANGED <<tested, nsFiles, scan, raised>>
    /\ UNCHANGED <<tyVars, treeVars, classFiles, self, enumStream, yielded, enumerators,
                   built, returned, clsVars, nsVars>>

(* --------------------------- AfterbirthApi ----------------------------- *)
\* [LuaClass(f) for f in files]: the list, or the first exception
RECURSIVE MapLuaClass(_, _)
MapLuaClass(files, fs) ==
    IF files = <<>> THEN Return(<<>>)
    ELSE LET c == LuaClass(Head(files), fs[Head(files)].marker, fs[Head(files)].lines) IN
         IF c.err # None THEN c
         ELSE LET rest == MapLuaClass(Tail(files), fs) IN
              IF rest.err # None THEN rest ELSE Return(c.obj \o rest.obj[1])

\* [LuaNamespace(f) for f in files]: the list, or the first exception
RECURSIVE MapLuaNamespace(_, _)
MapLuaNamespace(files, fs) ==
    IF files = <<>> THEN Return(<<>>)
    ELSE LET n == LuaNamespace(Head(files), fs[Head(files)].marker, fs[Head(files)].lines) IN
         IF n.err # None THEN n
         ELSE LET rest == MapLuaNamespace(Tail(files), fs) IN
              IF rest.err # None THEN rest ELSE Return(n.obj \o rest.obj[1])

\* line 414
BuildClasses ==
    /\ pc = "classes"
    /\ LET r == MapLuaClass(classFiles, content) IN
        IF r.err # None
        THEN pc' = "raised" /\ raised' = r.err /\ UNCHANGED self
        ELSE pc' = "namespaces" /\ self' = [self EXCEPT !.classes = r.obj[1]]
                                /\ UNCHANGED raised
    /\ UNCHANGED <<tyVars, treeVars, catVars, enumStream, yielded, enumerators, built,
                   returned, clsVars, nsVars>>

\* lines 415-417: the namespaces, then the enum file is opened
BuildNamespaces ==
    /\ pc = "namespaces"
    /\ LET r == MapLuaNamespace(nsFiles \o <<FuncsFileName>>, content) IN
        IF r.err # None
        THEN pc' = "raised" /\ raised' = r.err /\ UNCHANGED <<self, enumStream>>
        ELSE /\ pc' = "enums"
             /\ self' = [self EXCEPT !.namespaces = r.obj[1]]
             /\ enumStream' = OpenStream(EnumFileName, enumLines)
             /\ UNCHANGED raised
    /\ UNCHANGED <<tyVars, treeVars, catVars, yielded, enumerators, built, returned,
                   clsVars, nsVars>>

(* One turn of the loop of lines 418-422: a call of streamInit on the open *)
(* stream, then either break, which ends __init__, or                      *)
(* self.enumerators += [curEnum].  The += extends in place the list that   *)
(* self.enumerators resolves to, the list of the class attribute of line   *)
(* 408, and binds the instance attribute to that same list.                *)
DrainStep ==
    /\ pc = "enums"
    /\ LET curEnum == streamInit(enumStream.lines, enumStream.name, enumStream.pos) IN
        /\ enumStream' = [enumStream EXCEPT !.pos = curEnum.pos]
        /\ IF curEnum.ret = <<>>
           THEN /\ pc' = "done"
                /\ built' = Append(built, [classes |-> self.classes,
                                           namespaces |-> self.namespaces,
                                           enumerators |-> ClassList])
                /\ returned' = Append(returned, [classes |-> self.classes,
                                                 namespaces |-> self.namespaces,
                                                 enumerators |-> enumerators])
                /\ UNCHANGED <<yielded, enumerators>>
           ELSE /\ pc' = "enums"
                /\ yielded' = yielded \o curEnum.ret
                /\ enumerators' = enumerators \o curEnum.ret
                /\ UNCHANGED <<built, returned>>
    /\ UNCHANGED <<tyVars, treeVars, catVars, raised, self, clsVars, nsVars>>

\* AfterbirthApi(docPath) is called again in the same process
NewApi ==
    /\ pc = "done"
    /\ Len(built) < MaxRuns
    /\ pc' = "classPass"
    /\ scan' = [i |-> 1, j |-> 0]
    /\ tested' = <<>>
    /\ classFiles' = <<>>
    /\ nsFiles' = <<>>
    /\ self' = [classes |-> <<>>, namespaces |-> <<>>]
    /\ yielded' = <<>>
    /\ UNCHANGED <<tyVars, treeVars, raised, enumStream, enumerators, built, returned,
                   clsVars, nsVars>>

(* ------------------------- LuaClass, line by line ---------------------- *)
\* lines 230-249
ClsOpen ==
    /\ clsPc = "open"
    /\ LET o == LuaClassOpen(clsFile.path, clsFile.marker) IN
        IF o.err # None
        THEN clsPc' = "raised" /\ clsRaised' = o.err /\ UNCHANGED clsB
        ELSE clsPc' = "lines" /\ clsB' = o.obj[1] /\ UNCHANGED clsRaised
    /\ UNCHANGED <<tyVars, treeVars, catVars, apiVars, clsFile, clsRead, clsTry, nsVars>>

\* lines 250-269 on the next line of the file
ClsLine ==
    /\ clsPc = "lines"
    /\ Len(clsRead) < MaxClassLines
    /\ \E curLine \in ClassLines :
        /\ clsRead' = Append(clsRead, curLine)
        /\ clsB' = ClassLineStep(clsB, curLine, Len(clsRead) + 1, clsFile.path)
        /\ clsTry' = [mid |-> TryMethod(clsB, curLine, Len(clsRead) + 1),
                      err |-> LuaMethod(curLine, Len(clsRead) + 1, clsB.self).res.err]
    /\ UNCHANGED <<tyVars, treeVars, catVars, apiVars, clsFile, clsPc, clsRaised, nsVars>>

\* the file has no further line: the loop and __init__ end
ClsEof ==
    /\ clsPc = "lines"
    /\ clsPc' = "done"
    /\ UNCHANGED <<tyVars, treeVars, catVars, apiVars, clsFile, clsRead, clsB, clsRaised, clsTry, nsVars>>

(* ----------------------- LuaNamespace, line by line -------------------- *)
\* lines 279-291
NsOpen ==
    /\ nsPc = "open"
    /\ LET o == LuaNamespaceOpen(nsFile.path, nsFile.marker) IN
        IF o.err # None
        THEN nsPc' = "raised" /\ nsRaised' = o.err /\ UNCHANGED nsSelf
        ELSE nsPc' = "lines" /\ nsSelf' = o.obj[1] /\ UNCHANGED nsRaised
    /\ UNCHANGED <<tyVars, treeVars, catVars, apiVars, clsVars, nsFile, nsRead, nsTry>>

\* lines 292-300 on the next line of the file
NsLine ==
    /\ nsPc = "lines"
    /\ Len(nsRead) < MaxNsLines
    /\ \E curLine \in NsLines :
        /\ nsRead' = Append(nsRead, curLine)
        /\ nsTry' = [mid |-> TryFunction(nsSelf, curLine, Len(nsRead) + 1),
                     err |-> LuaFunction(curLine, Len(nsRead) + 1).err]
        /\ LET r == NsLineStep(nsSelf, curLine, Len(nsRead) + 1) IN
            IF r.err # None
            THEN nsPc' = "raised" /\ nsRaised' = r.err
                 /\ nsSelf' = TryFunction(nsSelf, curLine, Len(nsRead) + 1)
            ELSE nsSelf' = r.obj[1] /\ UNCHANGED <<nsPc, nsRaised>>
    /\ UNCHANGED <<tyVars, treeVars, catVars, apiVars, clsVars, nsFile>>

\* the file has no further line: the loop and __init__ end
NsEof ==
    /\ nsPc = "lines"
    /\ nsPc' = "done"
    /\ UNCHANGED <<tyVars, treeVars, catVars, apiVars, clsVars, nsFile, nsRead, nsSelf, nsRaised, nsTry>>

(* --------------------------- specifications ---------------------------- *)
\* the values of the parts of the state a specification leaves alone
NoTree ==
    /\ listing = <<>>
    /\ content = (FuncsFileName :> Content(None, <<>>))
    /\ enumLines = <<>>
NoCat ==
    /\ scan = [i |-> 1, j |-> 0]
    /\ tested = <<>>
    /\ classFiles = <<>>
    /\ nsFiles = <<>>
NoApi ==
    /\ pc = "idle"
    /\ raised = None
    /\ self = [classes |-> <<>>, namespaces |-> <<>>]
    /\ enumStream = OpenStream(EnumFileName, <<>>)
    /\ yielded = <<>>
    /\ enumerators = <<>>
    /\ built = <<>>
    /\ returned = <<>>
NoClass ==
    /\ clsFile = [path |-> Path(DocPath, NoFile), marker |-> None]
    /\ clsRead = <<>>
    /\ clsB = ClassBuilder([name |-> None, description |-> DocDescription("", <<>>),
                            methods |-> <<>>, attributes |-> <<>>, constructor |-> 0], 0)
    /\ clsPc = "idle"
    /\ clsRaised = None
    /\ clsTry = [mid |-> clsB, err |-> None]
NoNamespace ==
    /\ nsFile = [path |-> Path(DocPath, NoFile), marker |-> None]
    /\ nsRead = <<>>
    /\ nsSelf = [name |-> None, functions |-> <<>>]
    /\ nsPc = "idle"
    /\ nsRaised = None
    /\ nsTry = [mid |-> nsSelf, err |-> None]
NoType ==
    /\ tyHint = TypeHint("none", None, FALSE, FALSE)
    /\ tyOut = LuaTypeInitFlat("nil", FALSE, FALSE)
    /\ tyPc = "idle"

(* The whole program: AfterbirthApi(docPath) on a doc root, then again on  *)
(* the same, unchanged doc root.                                           *)
ApiLines == {l \in NsLines : l.fn \in {None, "foo"} /\ (l.fn = None => l.desc)}
ApiEnumLines == {l \in EnumLines : (l.en = "EnumX" /\ l.mem = None)
                                    \/ (l.en = None /\ l.mem = "a")}
ApiContents(path) ==
    {Content(m, l) : m \in MarkersOf(path) \cup {None}, l \in SeqUpTo(ApiLines, MaxApiLines)}

Init ==
    /\ listing \in Listings(MaxApiEntries, MaxApiChildren)
    /\ content \in
        {c \in [Classified(listing, 1, 0) \cup {FuncsFileName} ->
                  UNION {ApiContents(p) : p \in Classified(listing, 1, 0) \cup {FuncsFileName}}] :
            \A p \in DOMAIN c : c[p] \in ApiContents(p)}
    /\ enumLines \in SeqUpTo(ApiEnumLines, MaxApiEnumLines)
    /\ NoCat
    /\ pc = "classPass"
    /\ raised = None
    /\ self = [classes |-> <<>>, namespaces |-> <<>>]
    /\ enumStream = OpenStream(EnumFileName, <<>>)
    /\ yielded = <<>>
    /\ enumerators = <<>>
    /\ built = <<>>
    /\ returned = <<>>
    /\ NoClass
    /\ NoNamespace
    /\ NoType

Next ==
    \/ ClassPass
    \/ NsPass
    \/ BuildClasses
    \/ BuildNamespaces
    \/ DrainStep
    \/ NewApi

Spec == Init /\ [][Next]_vars

\* categorizeFiles on its own, on any listing
InitCat ==
    /\ listing \in Listings(MaxEntries, MaxChildren)
    /\ content = (FuncsFileName :> Content(None, <<>>))
    /\ enumLines = <<>>
    /\ NoCat
    /\ pc = "classPass"
    /\ raised = None
    /\ self = [classes |-> <<>>, namespaces |-> <<>>]
    /\ enumStream = OpenStream(EnumFileName, <<>>)
    /\ yielded = <<>>
    /\ enumerators = <<>>
    /\ built = <<>>
    /\ returned = <<>>
    /\ NoClass
    /\ NoNamespace
    /\ NoType

NextCat == ClassPass \/ NsPass

SpecCat == InitCat /\ [][NextCat]_vars

(* The enum reader on its own, on any enum file: AfterbirthApi.__init__    *)
(* from line 416 on, in a doc root that holds the two group__ files only,  *)
(* group__funcs.html being empty.                                          *)
InitEnum ==
    /\ listing = <<>>
    /\ content = (FuncsFileName :> Content(None, <<>>))
    /\ enumLines \in SeqUpTo(EnumLines, MaxEnumLines)
    /\ NoCat
    /\ pc = "enums"
    /\ raised = None
    /\ self = [classes |-> <<>>,
               namespaces |-> <<LuaNamespace(FuncsFileName, None, <<>>).obj[1]>>]
    /\ enumStream = OpenStream(EnumFileName, enumLines)
    /\ yielded = <<>>
    /\ enumerators = <<>>
    /\ built = <<>>
    /\ returned = <<>>
    /\ NoClass
    /\ NoNamespace
    /\ NoType

NextEnum == DrainStep

SpecEnum == InitEnum /\ [][NextEnum]_vars

\* LuaClass(classPath) on its own, on any class file
InitClass ==
    /\ NoTree
    /\ NoCat
    /\ NoApi
    /\ clsFile \in {[path |-> Path(DocPath, FileName("class_", "foo", ".html")),
                     marker |-> m] : m \in ClassNames \cup {None}}
    /\ clsRead = <<>>
    /\ clsB = ClassBuilder([name |-> None, description |-> DocDescription("", <<>>),
                            methods |-> <<>>, attributes |-> <<>>, constructor |-> 0], 0)
    /\ clsPc = "open"
    /\ clsRaised = None
    /\ clsTry = [mid |-> clsB, err |-> None]
    /\ NoNamespace
    /\ NoType

NextClass == ClsOpen \/ ClsLine \/ ClsEof

SpecClass == InitClass /\ [][NextClass]_vars

\* LuaNamespace(namespacePath) on its own, on any namespace file
InitNs ==
    /\ NoTree
    /\ NoCat
    /\ NoApi
    /\ NoClass
    /\ nsFile \in {[path |-> p, marker |-> m] :
                    p \in {Path(DocPath, FileName("namespace_", "Game", ".html")),
                           Path(SearchPath, FuncsFile), FuncsFileName},
                    m \in NamespaceNames \cup {None}}
    /\ nsRead = <<>>
    /\ nsSelf = [name |-> None, functions |-> <<>>]
    /\ nsPc = "open"
    /\ nsRaised = None
    /\ nsTry = [mid |-> nsSelf, err |-> None]
    /\ NoType

NextNs == NsOpen \/ NsLine \/ NsEof

SpecNs == InitNs /\ [][NextNs]_vars

(* The loop of lines 418-422 runs until it breaks: each turn is taken. *)
InitDrain == InitEnum /\ Len(enumLines) <= MaxDrainLines

SpecEnumFair == InitDrain /\ [][NextEnum]_vars /\ WF_vars(DrainStep)

(* A record builder on its own, LuaClass or LuaNamespace, on any file *)
InitBuilders == InitClass \/ InitNs

NextBuilders == NextClass \/ NextNs

SpecBuilders == InitBuilders /\ [][NextBuilders]_vars

(* LuaType(...) on its own, on any type hint *)
ConstructType ==
    /\ tyPc = "call"
    /\ tyOut' = LuaType(tyHint)
    /\ tyPc' = "done"
    /\ UNCHANGED <<tyHint, treeVars, catVars, apiVars, clsVars, nsVars>>

InitType ==
    /\ NoTree
    /\ NoCat
    /\ NoApi
    /\ NoClass
    /\ NoNamespace
    /\ tyHint \in TypeHints
    /\ tyOut = LuaTypeInitFlat("nil", FALSE, FALSE)
    /\ tyPc = "call"

NextType == ConstructType

SpecType == InitType /\ [][NextType]_vars

(* ------------------------------ claims --------------------------------- *)
\* the positions of the enum-name lines of a file, and the k-th of them
EnumNamePositions(file) == {i \in 1..Len(file) : IsEnumNameLine(file[i])}
KthEnumName(file, k) ==
    CHOOSE i \in EnumNamePositions(file) :
        Cardinality({j \in EnumNamePositions(file) : j < i}) = k - 1
\* where the k-th record ends: the next enum-name line, or the end of file
BlockEnd(file, k) ==
    IF k < Cardinality(EnumNamePositions(file)) THEN KthEnumName(file, k + 1)
    ELSE Len(file) + 1
\* the member lines strictly between two positions, as the tags they make
RECURSIVE MemberTagsBetween(_, _, _)
MemberTagsBetween(file, lo, hi) ==
    IF lo + 1 >= hi THEN <<>>
    ELSE (IF IsEnumMemberLine(file[lo + 1])
          THEN <<EnumTag(file[lo + 1].mem, 0, "")>> ELSE <<>>)
         \o MemberTagsBetween(file, lo + 1, hi)
IsSuffix(s, t) ==
    /\ Len(s) <= Len(t)
    /\ SubSeq(t, Len(t) - Len(s) + 1, Len(t)) = s

(* C1: draining streamInit over an enum file yields one Enumerator per     *)
(* enum-name line, in file order and with that line's name, and the member *)
(* lines between an enum-name line and the next one (or the end of file)   *)
(* are, in order, the last members of the Enumerator that line opened; a   *)
(* file with no enum-name line yields nothing.                             *)
C1_OnePerEnumName ==
    pc = "done" =>
        LET file == enumStream.lines IN
        /\ Len(yielded) = Cardinality(EnumNamePositions(file))
        /\ \A k \in 1..Len(yielded) :
            /\ yielded[k].name = file[KthEnumName(file, k)].en
            /\ IsSuffix(MemberTagsBetween(file, KthEnumName(file, k), BlockEnd(file, k)),
                        yielded[k].members)
        /\ (\A i \in 1..Len(file) : ~IsEnumNameLine(file[i])) => yielded = <<>>

EnumLineOf(e, m) == [en |-> e, link |-> EnumLink(e), mem |-> m]
\* EnumX with two members, then EnumY with one
TwoBlockFile ==
    <<EnumLineOf("EnumX", None), EnumLineOf(None, "a"), EnumLineOf(None, "b"),
      EnumLineOf("EnumY", None), EnumLineOf(None, "a")>>
C1_Witness ==
    /\ pc = "done"
    /\ enumStream.lines = TwoBlockFile
    /\ Len(yielded) = 2
    /\ yielded[1].name = "EnumX" /\ Len(yielded[1].members) = 2
    /\ yielded[2].name = "EnumY" /\ Len(yielded[2].members) = 1

(* C2: a class file with no class-name marker makes LuaClass fail with     *)
(* UpdatedDocError and with no other error; a file with the marker gives a *)
(* class whose name is not None.                                           *)
C2_MissingNameIsStructural ==
    /\ (clsFile.marker = None /\ clsPc \notin {"idle", "open"})
           => (clsPc = "raised" /\ clsRaised = "UpdatedDocError")
    /\ (clsFile.marker # None /\ clsPc = "done")
           => (clsRaised = None /\ clsB.self.name # None)

\* what an instance holds now
Snapshot(instance) ==
    [classes |-> instance.classes, namespaces |-> instance.namespaces,
     enumerators |-> EnumeratorsOf(instance)]

(* C3: the second AfterbirthApi built over an unchanged doc root holds,    *)
(* when its construction finishes, the same classes, namespaces and        *)
(* enumerators, in order, as the first held when its construction          *)
(* finished.                                                               *)
C3_SecondRunEqualsFirst ==
    Len(returned) >= 2 => returned[2] = returned[1]

(* C4: an instance that has been built holds what it held when its         *)
(* construction finished, whatever is constructed afterwards.              *)
C4_BuiltInstancesUnchanged ==
    \A k \in 1..Len(built) : Snapshot(built[k]) = returned[k]

(* The line a description line attaches to, from the lines read alone: the *)
(* last line, up to the description line itself, that appended a method or *)
(* an attribute (0 when there is none).  On that line the attribute is     *)
(* appended after the method.                                              *)
AppendsField(line) == line.fn # None \/ line.attr # None
TargetLine(lines, d) ==
    LET before == {t \in 1..d : AppendsField(lines[t])} IN
    IF before = {} THEN 0 ELSE CHOOSE t \in before : \A u \in before : u <= t
TargetKind(lines, d) ==
    IF TargetLine(lines, d) = 0 THEN "none"
    ELSE IF lines[TargetLine(lines, d)].attr # None THEN "attribute" ELSE "method"
\* the description the field of that kind made by line t ends up with
ExpectedDescription(lines, kind, t, classPath) ==
    LET ds == {d \in 1..Len(lines) :
                 lines[d].desc /\ TargetKind(lines, d) = kind /\ TargetLine(lines, d) = t} IN
    IF ds = {} THEN <<>>
    ELSE <<DocDescription(CHOOSE d \in ds : \A e \in ds : e <= d, <<classPath>>)>>

(* C5: in LuaClass a description line is attached to the last element of   *)
(* the list, methods or attributes, that was appended to most recently, a  *)
(* later description replacing an earlier one; a description line read     *)
(* before any method or attribute is dropped, and no error is raised.      *)
C5_DescriptionToLastAppended ==
    clsPc \in {"lines", "done"} =>
        /\ clsRaised = None
        /\ \A k \in 1..Len(clsB.self.methods) :
            clsB.self.methods[k].description =
                ExpectedDescription(clsRead, "method", clsB.self.methods[k].id, clsFile.path)
        /\ \A k \in 1..Len(clsB.self.attributes) :
            clsB.self.attributes[k].description =
                ExpectedDescription(clsRead, "attribute", clsB.self.attributes[k].id,
                                    clsFile.path)
        /\ (\A t \in 1..Len(clsRead) : ~AppendsField(clsRead[t])) =>
            (clsB.self.methods = <<>> /\ clsB.self.attributes = <<>>)

ClassLineOf(fn, attr, desc) ==
    [fn |-> fn, returns |-> ReturnsOf(fn), attr |-> attr, desc |-> desc]
\* [method M1, description D1, attribute A1, description D2]
C5_Witness ==
    /\ clsPc = "done"
    /\ clsRead = <<ClassLineOf("bar", None, FALSE), ClassLineOf(None, None, TRUE),
                   ClassLineOf(None, "x", FALSE), ClassLineOf(None, None, TRUE)>>
    /\ clsB.self.methods[1].description = <<DocDescription(2, <<clsFile.path>>)>>
    /\ clsB.self.attributes[1].description = <<DocDescription(4, <<clsFile.path>>)>>

(* C6: the constructor of a class is the last of its methods whose name is *)
(* the class name, and is absent when no method has that name.             *)
C6_ConstructorIsLastMatch ==
    clsPc \in {"lines", "done"} =>
        LET methods == clsB.self.methods
            same == {k \in 1..Len(methods) : methods[k].name = clsB.self.name} IN
        IF same = {} THEN clsB.self.constructor = 0
        ELSE clsB.self.constructor =
                methods[CHOOSE k \in same : \A h \in same : h <= k].id

\* methods [foo, bar, foo] in class foo
C6_Witness ==
    /\ clsPc = "done"
    /\ clsB.self.name = "foo"
    /\ Len(clsB.self.methods) = 3
    /\ clsB.self.methods[1].name = "foo"
    /\ clsB.self.methods[2].name = "bar"
    /\ clsB.self.methods[3].name = "foo"
    /\ clsB.self.constructor = clsB.self.methods[3].id
    /\ clsB.self.constructor # clsB.self.methods[1].id

\* the position of the first subdirectory not named 'search' (0 when none)
OffendingDirs == {i \in 1..Len(listing) : listing[i].isDir /\ listing[i].name # SearchDir}
FirstOffending ==
    IF OffendingDirs = {} THEN 0
    ELSE CHOOSE i \in OffendingDirs : \A h \in OffendingDirs : i <= h
\* the names the root lists before entry n, those of a directory in its place
RECURSIVE NamesBefore(_, _)
NamesBefore(entries, n) ==
    IF n <= 1 THEN <<>>
    ELSE NamesBefore(entries, n - 1)
         \o (IF entries[n - 1].isDir THEN entries[n - 1].children
             ELSE <<entries[n - 1].name>>)

C8_OnlyStructuralErrorsEscape ==
    raised \in {None, "UpdatedDocError"}

(* C9: when the namespace name is not found, LuaNamespace takes the name   *)
(* '_G' if the file's basename is group__funcs.html, and for any other     *)
(* file fails with UpdatedDocError and makes no namespace.                 *)
C9_GlobalOrStructuralError ==
    (nsFile.marker = None /\ nsPc \notin {"idle", "open"} /\ nsRead = <<>>) =>
        IF basename(nsFile.path).file = FuncsFile
        THEN nsPc # "raised" /\ nsSelf.name = "_G"
        ELSE nsPc = "raised" /\ nsRaised = "UpdatedDocError"

(* C10: no path in the class-files or namespace-files list of              *)
(* categorizeFiles lies under the search directory.                        *)
C10_SearchFilesNotClassified ==
    /\ \A k \in 1..Len(classFiles) : classFiles[k].dir # SearchPath
    /\ \A k \in 1..Len(nsFiles) : nsFiles[k].dir # SearchPath

(* C11: every LuaType, however it is constructed (no type hint, a string,  *)
(* a match whose 'type' group is empty or did not participate), has a      *)
(* non-empty string for a name, and one constructed with no matched type   *)
(* text is {name: 'nil', isConst: false, isStatic: false}.                 *)
NoTypeText(typeHint) ==
    typeHint.kind = "none" \/ (typeHint.kind = "match" /\ typeHint.type \in {"", None})
C11_NameNeverAbsent ==
    tyPc = "done" =>
        /\ tyOut.name \notin {"", None}
        /\ NoTypeText(tyHint) =>
               tyOut = [name |-> "nil", isConst |-> FALSE, isStatic |-> FALSE]

(* C12: a line that does not match the function-signature pattern makes    *)
(* the construction of a LuaMethod or LuaFunction fail with                *)
(* InvalidFunctionRematcher and leaves nothing behind: after the attempt   *)
(* of the Class builder the methods list, the constructor and lastSet are  *)
(* what they were before it, and after the attempt of the Namespace        *)
(* builder the functions list is what it was.                              *)
LastLine(read) == read[Len(read)]
C12_FailedAttemptLeavesNothing ==
    [][/\ (clsRead' # clsRead /\ LastLine(clsRead').fn = None) =>
            /\ clsTry'.err = "InvalidFunctionRematcher"
            /\ clsTry'.mid.self.methods = clsB.self.methods
            /\ clsTry'.mid.self.constructor = clsB.self.constructor
            /\ clsTry'.mid.lastSet = clsB.lastSet
       /\ (nsRead' # nsRead /\ LastLine(nsRead').fn = None) =>
            /\ nsTry'.err = "InvalidFunctionRematcher"
            /\ nsTry'.mid.functions = nsSelf.functions]_vars
C12_Witness ==
    /\ clsPc = "lines"
    /\ Len(clsRead) >= 2
    /\ LastLine(clsRead).fn = None
    /\ LastLine(clsRead).attr = None
    /\ clsTry.err = "InvalidFunctionRematcher"
    /\ clsB.self.constructor # 0
    /\ Len(clsB.self.methods) = Len(clsRead) - 1
    /\ clsB.lastSet = METHOD_SET

(* C13: a call of streamInit that reads an enum-name line while a record   *)
(* is open returns that record and leaves the stream just before that      *)
(* line; the next call reads that line first and returns the Enumerator of *)
(* its name.  The lines a call consumes start where the call before it     *)
(* stopped: none is skipped, none is consumed by two calls.                *)
NamesAfter(file, p) == {i \in (p + 1)..Len(file) : IsEnumNameLine(file[i])}
Least(S) == CHOOSE i \in S : \A j \in S : i <= j
\* the enum-name line a call started at p finds a record open at, or 0
ClosingName(file, p) ==
    IF Cardinality(NamesAfter(file, p)) < 2 THEN 0
    ELSE Least(NamesAfter(file, p) \ {Least(NamesAfter(file, p))})
C13_NextCallStartsAtUnconsumedName ==
    [][pc = "enums" =>
        LET file == enumStream.lines
            closing == ClosingName(file, enumStream.pos) IN
        /\ closing # 0 =>
              /\ Len(yielded') = Len(yielded) + 1
              /\ enumStream'.pos = closing - 1
        /\ closing = 0 => enumStream'.pos = Len(file)
        /\ (enumStream.pos > 0 /\ enumStream.pos < Len(file)) =>
              /\ IsEnumNameLine(file[enumStream.pos + 1])
              /\ Len(yielded') = Len(yielded) + 1
              /\ yielded'[Len(yielded')].name = file[enumStream.pos + 1].en]_vars
\* EnumX, EnumY, EnumX again: the second call has started at the line of
\* EnumY and stopped before the second line of EnumX
ThreeBlockFile ==
    <<EnumLineOf("EnumX", None), EnumLineOf(None, "a"), EnumLineOf("EnumY", None),
      EnumLineOf(None, "b"), EnumLineOf("EnumX", None)>>
C13_Witness ==
    /\ pc = "enums"
    /\ enumStream.lines = ThreeBlockFile
    /\ enumStream.pos = 4
    /\ Len(yielded) = 2
    /\ yielded[2].name = "EnumY"

(* C14: the drain loop of AfterbirthApi.__init__ ends on every file.  A    *)
(* call of streamInit that returns an Enumerator leaves the stream further *)
(* than it found it; a call that reaches the end of file with a record     *)
(* open returns it and leaves the stream at its end; a call on a stream at *)
(* its end returns None, which ends the loop.                              *)
C14_DrainTerminates ==
    /\ [][pc = "enums" =>
            LET file == enumStream.lines
                p == enumStream.pos IN
            /\ Len(yielded') > Len(yielded) =>
                  /\ enumStream'.pos > p
                  /\ pc' = "enums"
            /\ (NamesAfter(file, p) # {} /\ ClosingName(file, p) = 0) =>
                  /\ Len(yielded') = Len(yielded) + 1
                  /\ enumStream'.pos = Len(file)
            /\ p = Len(file) => (yielded' = yielded /\ pc' = "done")]_vars
    /\ <>(pc = "done")
\* the loop has ended after three calls, the second of which reached the
\* end of file with the record of EnumY open
C14_Witness ==
    /\ pc = "done"
    /\ Len(enumStream.lines) = MaxDrainLines
    /\ enumStream.pos = Len(enumStream.lines)
    /\ Len(yielded) = 2
    /\ NamesAfter(enumStream.lines, 0) = {1, 3}

(* C15: streamInit appends a member only while a record is open: a member  *)
(* line read before the call has seen an enum-name line is added to no     *)
(* Enumerator, so the members of an Enumerator are exactly the member      *)
(* lines between its enum-name line and the next one (or the end of file). *)
C15_MembersOnlyWhileOpen ==
    pc = "done" =>
        LET file == enumStream.lines IN
        \A k \in 1..Len(yielded) :
            yielded[k].members =
                MemberTagsBetween(file, KthEnumName(file, k), BlockEnd(file, k))

(* C16: every Enumerator of the enum file has the same kind of link in its *)
(* description, the documentation base URL joined with the basename of the *)
(* enum file and followed by the anchor of the enum, whether a next        *)
(* enum-name line or the end of file completed it.                         *)
C16_LinkDerivedTheSameWay ==
    \A k \in 1..Len(yielded) :
        yielded[k].description.link =
            <<[base |-> DocBase, file |-> EnumFileName.file,
               anchor |-> EnumLink(yielded[k].name)]>>

(* C17: in the Namespace builder a description line is attached to the     *)
(* function appended last, and a description line read before any function *)
(* was recognized is dropped without an error, as in the Class builder.    *)
C17_EarlyDescriptionDropped ==
    (nsRead # <<>> /\ LastLine(nsRead).desc) =>
        /\ nsPc # "raised"
        /\ nsSelf.functions =
              IF nsTry.mid.functions = <<>> THEN <<>>
              ELSE SetLastDescription(nsTry.mid.functions,
                                      DocDescription(Len(nsRead), <<>>))

(* C18: whenever the constructor of a class is set, during the line loop   *)
(* (after the method attempt and at the end of each line) and after it,    *)
(* it refers to a method of the class's own methods list, and the return   *)
(* type of that method is the class type: the name of the class, static.   *)
ConstructorInMethods(class_) ==
    class_.constructor # 0 =>
        \E k \in 1..Len(class_.methods) :
            /\ class_.methods[k].id = class_.constructor
            /\ class_.methods[k].returnType.name = class_.name
            /\ class_.methods[k].returnType.isStatic
C18_ConstructorIsOwnStaticMethod ==
    clsPc \in {"lines", "done"} =>
        /\ ConstructorInMethods(clsB.self)
        /\ ConstructorInMethods(clsTry.mid.self)
C18_Witness ==
    /\ clsPc = "done"
    /\ Len(clsB.self.methods) = 3
    /\ clsB.self.constructor = clsB.self.methods[2].id
    /\ clsB.self.methods[2].returnType.name = clsB.self.name

(* C19: the Class builder accumulates in file order and only appends.      *)
(* After any prefix of the lines, methods holds one Method per line of the *)
(* prefix that matches the function-signature pattern, in line order, and  *)
(* attributes one Attribute per line that matches the attribute pattern,   *)
(* in line order; a further line leaves the elements already there in      *)
(* place, and a line that matches both patterns is in both lists.          *)
\* the numbers of the lines whose field is not None, in line order
MatchingLines(read, field) ==
    LET F[n \in 0..Len(read)] ==
            IF n = 0 THEN <<>>
            ELSE IF read[n][field] # None THEN Append(F[n - 1], n) ELSE F[n - 1]
    IN F[Len(read)]
BuiltFrom(list, read, field) ==
    /\ [k \in 1..Len(list) |-> list[k].id] = MatchingLines(read, field)
    /\ \A k \in 1..Len(list) : list[k].name = read[list[k].id][field]
C19_FileOrderAppendOnly ==
    /\ clsPc \in {"lines", "done"} =>
          /\ BuiltFrom(clsB.self.methods, clsRead, "fn")
          /\ BuiltFrom(clsB.self.attributes, clsRead, "attr")
    /\ (clsPc = "lines" /\ clsRead # <<>>) =>
          /\ BuiltFrom(clsTry.mid.self.methods, clsRead, "fn")
          /\ BuiltFrom(clsTry.mid.self.attributes,
                       SubSeq(clsRead, 1, Len(clsRead) - 1), "attr")
\* a line that matches neither pattern, then two that match both
C19_Witness ==
    /\ clsPc = "done"
    /\ Len(clsRead) = 3
    /\ clsRead[1].fn = None /\ clsRead[1].attr = None
    /\ \A n \in 2..3 : clsRead[n].fn # None /\ clsRead[n].attr # None
    /\ clsRead[2].fn # clsRead[3].fn
    /\ [k \in 1..2 |-> clsB.self.methods[k].id] = <<2, 3>>
    /\ [k \in 1..2 |-> clsB.self.attributes[k].id] = <<2, 3>>
====
